---- MODULE Spec2Model ----
(***************************************************************************)
(* Model of tfrutil/client.py: the validation-and-dispatch path of         *)
(* create_tfrecords (to_dataframe, _validate_data, _validate_runner, the   *)
(* logging set-up, build_pipeline / run / wait_until_finish and the        *)
(* logging shutdown), together with the process-wide logging state that    *)
(* survives from one invocation to the next.                               *)
(***************************************************************************)
EXTENDS Integers, Sequences, FiniteSets, TLC

VARIABLES
  args,      \* the arguments of create_tfrecords (fixed for a behaviour)
  pc,        \* position inside create_tfrecords
  inv,       \* number of the current invocation in this process
  df,        \* local df of create_tfrecords
  exc,       \* exception propagated to the caller, or NoExc
  logst,     \* process-wide state of the logging module
  calls,     \* per-invocation count of the external calls made
  job        \* state of the job handle (result) of this invocation

vars == <<args, pc, inv, df, exc, logst, calls, job>>

-----------------------------------------------------------------------------
(* Bounds *)

MaxRows == 2
MaxInvocations == 2

-----------------------------------------------------------------------------
(* Text: Python str values are sequences of characters *)

StartsWith(s, p) == Len(s) >= Len(p) /\ SubSeq(s, 1, Len(p)) = p

EndsWith(s, p) ==
  Len(s) >= Len(p) /\ SubSeq(s, Len(s) - Len(p) + 1, Len(s)) = p

GS_PREFIX == <<"g", "s", ":", "/", "/">>

CSV_SUFFIX == <<".", "c", "s", "v">>

\* Python None
NONE == "<None>"

\* truth value of an Optional[str] argument (not v)
Truthy(v) == v # NONE /\ v # ""

-----------------------------------------------------------------------------
(* constants.py *)

IMAGE_URI_KEY == "image_uri"

LABEL_KEY == "label"

SPLIT_KEY == "split"

IMAGE_CSV_COLUMNS == <<IMAGE_URI_KEY, LABEL_KEY, SPLIT_KEY>>

LOGLEVEL == "LOGLEVEL"

-----------------------------------------------------------------------------
(* Values of the image_uri column: a str, or a missing entry (NaN) of an   *)
(* object-dtype column.                                                     *)

StrVal(s) == [na |-> FALSE, s |-> s]

NaN == [na |-> TRUE, s |-> <<>>]

GsUri == StrVal(GS_PREFIX \o <<"b">>)

LocalPath == StrVal(<<"/", "t", "m", "p">>)

UriValues == {GsUri, LocalPath, NaN}

\* the text of a column name when a header line is read as a data row
NameChars(n) ==
  CASE n = "image_uri" -> <<"i", "m", "a", "g", "e", "_", "u", "r", "i">>
    [] n = "label" -> <<"l", "a", "b", "e", "l">>
    [] n = "split" -> <<"s", "p", "l", "i", "t">>
    [] OTHER -> <<"u", "r", "i">>

\* the column name pandas derives from a cell of an inferred header line
CellName(v) == IF v = GsUri THEN "gs://b" ELSE "/tmp"

-----------------------------------------------------------------------------
(* Exceptions *)

NoExc == "none"

OK == "ok"

E_NOT_IMPLEMENTED == "NotImplementedError"

E_UNSUPPORTED_INPUT == "ValueError: Unsupported input_data"

E_KEY == "KeyError: names not in index"

E_NO_IMAGE_URI == "AttributeError: Dataframe must contain image_uri column"

E_NO_LABEL == "AttributeError: Dataframe must contain label column"

E_NO_SPLIT == "AttributeError: Dataframe must contain split column"

E_COLUMN_ORDER == "AttributeError: Dataframe column order must be IMAGE_CSV_COLUMNS"

E_RUNNER == "AttributeError: Runner is not supported"

E_GCS == "AttributeError: DataFlowRunner requires GCS image locations"

E_PROJECT_REGION == "AttributeError: DataFlowRunner requires project region and region"

E_BUILD == "exception raised by build_pipeline"

E_RUN == "exception raised by p.run()"

E_WAIT == "exception raised by result.wait_until_finish()"

NormalizerErrors == {E_NOT_IMPLEMENTED, E_UNSUPPORTED_INPUT, E_KEY}

SchemaErrors == {E_NO_IMAGE_URI, E_NO_LABEL, E_NO_SPLIT, E_COLUMN_ORDER}

RunnerErrors == {E_RUNNER, E_GCS, E_PROJECT_REGION}

ValidationErrors == NormalizerErrors \cup SchemaErrors \cup RunnerErrors

-----------------------------------------------------------------------------
(* Tables (pandas DataFrame): the ordered column list, the values of the   *)
(* image_uri column and whether the label column has an integer dtype.     *)

Range(s) == {s[i] : i \in 1..Len(s)}

NoTable == [columns |-> <<>>, uri |-> <<>>, intLabel |-> FALSE]

\* _validate_data without the final comparison of the column list
validate_data_NoOrderCheck(t) ==
  IF IMAGE_URI_KEY \notin Range(t.columns) THEN E_NO_IMAGE_URI
  ELSE IF LABEL_KEY \notin Range(t.columns) THEN E_NO_LABEL
  ELSE IF SPLIT_KEY \notin Range(t.columns) THEN E_NO_SPLIT
  ELSE OK

\* _validate_data: the exception it raises, or OK
validate_data(t) ==
  IF IMAGE_URI_KEY \notin Range(t.columns) THEN E_NO_IMAGE_URI
  ELSE IF LABEL_KEY \notin Range(t.columns) THEN E_NO_LABEL
  ELSE IF SPLIT_KEY \notin Range(t.columns) THEN E_NO_SPLIT
  ELSE IF t.columns # IMAGE_CSV_COLUMNS THEN E_COLUMN_ORDER
  ELSE OK

\* Series.str.startswith: element-wise, a missing entry stays missing
str_startswith(col, p) ==
  [i \in 1..Len(col) |->
     IF col[i].na THEN "NaN"
     ELSE IF StartsWith(col[i].s, p) THEN "True" ELSE "False"]

\* Series.all(): missing entries are skipped
series_all(col) == \A i \in 1..Len(col) : col[i] # "False"

\* _validate_runner testing project and region against None only
validate_runner_NoneOnly(t, runner, project, region) ==
  IF runner \notin {"DataFlowRunner", "DirectRunner"} THEN E_RUNNER
  ELSE LET gcs_path == series_all(str_startswith(t.uri, GS_PREFIX))
       IN IF runner = "DataFlowRunner" /\ ~gcs_path THEN E_GCS
          ELSE IF runner = "DataFlowRunner"
                    /\ \E v \in {project, region} : v = NONE
               THEN E_PROJECT_REGION
               ELSE OK

\* _validate_runner testing the runner name after the DataFlowRunner checks
validate_runner_RunnerLast(t, runner, project, region) ==
  LET gcs_path == series_all(str_startswith(t.uri, GS_PREFIX))
  IN IF runner # "DirectRunner" /\ ~gcs_path THEN E_GCS
     ELSE IF runner # "DirectRunner"
               /\ \E v \in {project, region} : ~Truthy(v)
          THEN E_PROJECT_REGION
          ELSE IF runner \notin {"DataFlowRunner", "DirectRunner"}
               THEN E_RUNNER ELSE OK

\* _validate_runner: the exception it raises, or OK
validate_runner(t, runner, project, region) ==
  IF runner \notin {"DataFlowRunner", "DirectRunner"} THEN E_RUNNER
  ELSE LET gcs_path == series_all(str_startswith(t.uri, GS_PREFIX))
       IN IF runner = "DataFlowRunner" /\ ~gcs_path THEN E_GCS
          ELSE IF runner = "DataFlowRunner"
                    /\ \E v \in {project, region} : ~Truthy(v)
               THEN E_PROJECT_REGION
               ELSE OK

-----------------------------------------------------------------------------
(* Input normalizer *)

\* the names argument: a column list; <<>> stands for None (both are falsy)
NoNames == <<>>

\* DataFrame.__getitem__ with a list of column names
df_getitem(t, names) ==
  IF Range(names) \subseteq Range(t.columns)
  THEN [err |-> OK,
        df |-> [columns |-> names,
                uri |-> IF IMAGE_URI_KEY \in Range(names) THEN t.uri ELSE <<>>,
                intLabel |-> t.intLabel /\ LABEL_KEY \in Range(names)]]
  ELSE [err |-> E_KEY, df |-> NoTable]

\* pd.read_csv on a file of three-field lines: an optional header line
\* (f.head, <<>> when the file starts with data) followed by data lines.
\* Without names the first line gives the column names; with names every
\* line is a data row.
pd_read_csv(f, names, header) ==
  IF names = NoNames
  THEN IF f.head # <<>>
       THEN [columns |-> f.head, uri |-> f.body, intLabel |-> f.intLabel]
       ELSE [columns |-> <<CellName(f.body[1]), "cat", "train">>,
             uri |-> Tail(f.body), intLabel |-> f.intLabel]
  ELSE IF f.head # <<>>
       THEN [columns |-> names,
             uri |-> <<StrVal(NameChars(f.head[1]))>> \o f.body,
             intLabel |-> FALSE]
       ELSE [columns |-> names, uri |-> f.body, intLabel |-> f.intLabel]

\* read_csv
read_csv(f, header, names) ==
  LET names1 == IF header = NONE /\ names = NoNames
                THEN IMAGE_CSV_COLUMNS ELSE names
  IN pd_read_csv(f, names1, header)

\* _is_directory implemented: tells whether the path is a directory
_is_directory_Implemented(input_data) == input_data.isdir

\* _is_directory: a stub, whatever the path is
_is_directory(input_data) == FALSE

\* to_dataframe: the exception it raises (or OK) and the table it returns
to_dataframe(input_data, header, names) ==
  IF input_data.kind = "DataFrame"
  THEN IF names # NoNames THEN df_getitem(input_data.table, names)
       ELSE [err |-> OK, df |-> input_data.table]
  ELSE IF input_data.kind = "str" /\ EndsWith(input_data.path, CSV_SUFFIX)
  THEN [err |-> OK, df |-> read_csv(input_data.file, header, names)]
  ELSE IF input_data.kind = "str" /\ _is_directory(input_data)
  THEN [err |-> E_NOT_IMPLEMENTED, df |-> NoTable]
  ELSE [err |-> E_UNSUPPORTED_INPUT, df |-> NoTable]

-----------------------------------------------------------------------------
(* The inputs of an invocation *)

ColumnNames == {IMAGE_URI_KEY, LABEL_KEY, SPLIT_KEY, "uri"}

\* column lists without repeated names
ColumnLists ==
  {c \in UNION {[1..n -> ColumnNames] : n \in 0..Cardinality(ColumnNames)} :
     \A i, j \in 1..Len(c) : i # j => c[i] # c[j]}

UriLists == UNION {[1..n -> UriValues] : n \in 0..MaxRows}

Tables ==
  {[columns |-> c, uri |-> u, intLabel |-> b] :
     c \in {x \in ColumnLists : IMAGE_URI_KEY \in Range(x)},
     u \in UriLists, b \in BOOLEAN}
  \cup {[columns |-> c, uri |-> <<>>, intLabel |-> FALSE] :
          c \in {x \in ColumnLists : IMAGE_URI_KEY \notin Range(x)}}

NoFile == [head |-> <<>>, body |-> <<>>, intLabel |-> FALSE]

\* CSV files: non-empty, with or without a header line, every cell filled
Files ==
  {[head |-> h, body |-> u, intLabel |-> FALSE] :
     h \in {<<>>, IMAGE_CSV_COLUMNS, <<LABEL_KEY, IMAGE_URI_KEY, SPLIT_KEY>>},
     u \in {x \in UriLists : NaN \notin Range(x)}} \ {NoFile}

CsvPath == <<"a", ".", "c", "s", "v">>

DirPath == <<"i", "m", "g", "s">>

TxtPath == <<"a", ".", "t", "x", "t">>

Inputs ==
  {[kind |-> "DataFrame", table |-> t, path |-> <<>>, isdir |-> FALSE,
    file |-> NoFile] : t \in Tables}
  \cup {[kind |-> "str", table |-> NoTable, path |-> CsvPath, isdir |-> FALSE,
         file |-> f] : f \in Files}
  \cup {[kind |-> "str", table |-> NoTable, path |-> DirPath, isdir |-> TRUE,
         file |-> NoFile],
        [kind |-> "str", table |-> NoTable, path |-> TxtPath, isdir |-> FALSE,
         file |-> NoFile],
        [kind |-> "other", table |-> NoTable, path |-> <<>>, isdir |-> FALSE,
         file |-> NoFile]}

Runners == {"DirectRunner", "DataFlowRunner", "DirectFlowRunner"}

OptStrings == {NONE, "", "p"}

Headers == {"infer", NONE}

NamesArgs == {NoNames, IMAGE_CSV_COLUMNS}

\* header is not used when input_data is a DataFrame: it keeps its default
Args ==
  {a \in [input_data : Inputs, header : Headers, names : NamesArgs,
          runner : Runners, project : OptStrings, region : OptStrings] :
     a.input_data.kind # "str" => a.header = "infer"}

-----------------------------------------------------------------------------
(* The logging module: the root logger's handlers and level, whether the   *)
(* handler's stream is open, and the level of the 'tensorflow' logger.     *)

InitLog ==
  [handlers |-> 0, open |-> FALSE, rootLevel |-> "WARNING",
   tfLevel |-> "NOTSET"]

\* logging.basicConfig(filename, level): does nothing when the root logger
\* already has a handler
basicConfig(l, level) ==
  IF l.handlers = 0
  THEN [l EXCEPT !.handlers = 1, !.open = TRUE, !.rootLevel = level]
  ELSE l

\* logging.getLogger('tensorflow').setLevel(level)
setTfLevel(l, level) == [l EXCEPT !.tfLevel = level]

\* logging.shutdown(): flushes and closes every handler; they stay attached
shutdown(l) == [l EXCEPT !.open = FALSE]

-----------------------------------------------------------------------------
(* The job handle *)

NoCalls == [basicConfig |-> 0, shutdown |-> 0, build |-> 0, run |-> 0, wait |-> 0]

NoJob == [state |-> "none", runner |-> NONE, integer_label |-> FALSE]

\* terminal states a job handle can report
TerminalStates == {"DONE", "FAILED"}

-----------------------------------------------------------------------------
(* create_tfrecords *)

Init ==
  /\ args \in Args
  /\ pc = "call"
  /\ inv = 1
  /\ df = NoTable
  /\ exc = NoExc
  /\ logst = InitLog
  /\ calls = NoCalls
  /\ job = NoJob

Raise(e) == pc' = "raised" /\ exc' = e

\* df = to_dataframe(input_data, header, names)
Normalize ==
  /\ pc = "call"
  /\ LET r == to_dataframe(args.input_data, args.header, args.names)
     IN IF r.err = OK
        THEN pc' = "validate_data" /\ df' = r.df /\ exc' = exc
        ELSE Raise(r.err) /\ df' = df
  /\ UNCHANGED <<args, inv, logst, calls, job>>

\* _validate_data(df)
ValidateData ==
  /\ pc = "validate_data"
  /\ LET e == validate_data(df)
     IN IF e = OK THEN pc' = "validate_runner" /\ exc' = exc ELSE Raise(e)
  /\ UNCHANGED <<args, inv, df, logst, calls, job>>

\* _validate_runner run after the logging set-up instead of before it
ValidateRunner_LogFirst ==
  /\ pc = "validate_runner"
  /\ logst' = setTfLevel(basicConfig(logst, LOGLEVEL), "ERROR")
  /\ calls' = [calls EXCEPT !.basicConfig = @ + 1]
  /\ LET e == validate_runner(df, args.runner, args.project, args.region)
     IN IF e = OK THEN pc' = "build" /\ exc' = exc ELSE Raise(e)
  /\ UNCHANGED <<args, inv, df, job>>

\* _validate_runner(df, runner, project, region)
ValidateRunner ==
  /\ pc = "validate_runner"
  /\ LET e == validate_runner(df, args.runner, args.project, args.region)
     IN IF e = OK THEN pc' = "logging" /\ exc' = exc ELSE Raise(e)
  /\ UNCHANGED <<args, inv, df, logst, calls, job>>

\* logging.basicConfig(...); logging.getLogger('tensorflow').setLevel(ERROR)
SetupLogging ==
  /\ pc = "logging"
  /\ logst' = setTfLevel(basicConfig(logst, LOGLEVEL), "ERROR")
  /\ calls' = [calls EXCEPT !.basicConfig = @ + 1]
  /\ pc' = "build"
  /\ UNCHANGED <<args, inv, df, exc, job>>

\* integer_label = ...; p = beam_pipeline.build_pipeline(df, ...)
BuildPipeline ==
  /\ pc = "build"
  /\ calls' = [calls EXCEPT !.build = @ + 1]
  /\ \E raises \in BOOLEAN :
       IF raises
       THEN Raise(E_BUILD) /\ job' = job
       ELSE /\ job' = [state |-> "built", runner |-> args.runner,
                       integer_label |-> df.intLabel]
            /\ pc' = "run"
            /\ exc' = exc
  /\ UNCHANGED <<args, inv, df, logst>>

\* p.run() without waiting for a DataFlowRunner job
RunPipeline_Async ==
  /\ pc = "run"
  /\ calls' = [calls EXCEPT !.run = @ + 1]
  /\ \E raises \in BOOLEAN :
       IF raises
       THEN Raise(E_RUN) /\ job' = job
       ELSE /\ job' = [job EXCEPT !.state = "RUNNING"]
            /\ pc' = IF args.runner = "DataFlowRunner" THEN "shutdown"
                     ELSE "wait"
            /\ exc' = exc
  /\ UNCHANGED <<args, inv, df, logst>>

\* result = p.run()
RunPipeline ==
  /\ pc = "run"
  /\ calls' = [calls EXCEPT !.run = @ + 1]
  /\ \E raises \in BOOLEAN :
       IF raises
       THEN Raise(E_RUN) /\ job' = job
       ELSE /\ job' = [job EXCEPT !.state = "RUNNING"]
            /\ pc' = "wait"
            /\ exc' = exc
  /\ UNCHANGED <<args, inv, df, logst>>

\* result.wait_until_finish(): the job reaches a terminal state; the call
\* returns it (the value is discarded) or raises
WaitUntilFinish ==
  /\ pc = "wait"
  /\ calls' = [calls EXCEPT !.wait = @ + 1]
  /\ \E final \in TerminalStates, raises \in BOOLEAN :
       /\ raises => final = "FAILED"
       /\ job' = [job EXCEPT !.state = final]
       /\ IF raises THEN Raise(E_WAIT) ELSE pc' = "shutdown" /\ exc' = exc
  /\ UNCHANGED <<args, inv, df, logst>>

\* logging.shutdown(); the copy of the log file is a no-op; return None
ShutdownLogging ==
  /\ pc = "shutdown"
  /\ logst' = shutdown(logst)
  /\ calls' = [calls EXCEPT !.shutdown = @ + 1]
  /\ pc' = "returned"
  /\ UNCHANGED <<args, inv, df, exc, job>>

\* the caller repeats the same invocation in the same process
Reinvoke ==
  /\ pc \in {"returned", "raised"}
  /\ inv < MaxInvocations
  /\ inv' = inv + 1
  /\ pc' = "call"
  /\ df' = NoTable
  /\ exc' = NoExc
  /\ calls' = NoCalls
  /\ job' = NoJob
  /\ UNCHANGED <<args, logst>>

Next ==
  \/ Normalize
  \/ ValidateData
  \/ ValidateRunner
  \/ SetupLogging
  \/ BuildPipeline
  \/ RunPipeline
  \/ WaitUntilFinish
  \/ ShutdownLogging
  \/ Reinvoke

Spec == Init /\ [][Next]_vars

TypeOK ==
  /\ args \in Args
  /\ pc \in {"call", "validate_data", "validate_runner", "logging", "build",
             "run", "wait", "shutdown", "returned", "raised"}
  /\ inv \in 1..MaxInvocations

-----------------------------------------------------------------------------
(* Properties *)

Finished == pc \in {"returned", "raised"}

\* the schema stage has run on df
SchemaStageDone ==
  \/ pc \notin {"call", "validate_data", "raised"}
  \/ pc = "raised" /\ exc \notin NormalizerErrors

\* the runner stage has run on df
RunnerStageDone ==
  \/ pc \notin {"call", "validate_data", "validate_runner", "raised"}
  \/ pc = "raised" /\ exc \notin NormalizerErrors \cup SchemaErrors

IsGs(v) == ~v.na /\ StartsWith(v.s, GS_PREFIX)

Missing(v) == v = NONE \/ v = ""

\* C1: when to_dataframe, _validate_data or _validate_runner fails, the call
\* raises without logging.basicConfig, build_pipeline or p.run() having been
\* called in this invocation: no job exists, and in a first invocation the
\* logging state is still the initial one.
C1_ValidationFailureAcquiresNothing ==
  (pc = "raised" /\ exc \in ValidationErrors) =>
     /\ calls = NoCalls
     /\ job = NoJob
     /\ inv = 1 => logst = InitLog

C1_Witness == pc = "raised" /\ exc = E_PROJECT_REGION /\ inv = 1

\* C2: once logging.basicConfig has been called in an invocation,
\* logging.shutdown is called exactly once before the invocation ends,
\* whether it returns or raises.
C2_ScopeReleasedOnEveryExit ==
  /\ calls.shutdown <= 1
  /\ (Finished /\ calls.basicConfig > 0) => calls.shutdown = 1

\* C3: when the job ends in a failed terminal state, create_tfrecords
\* raises; it does not return normally.
C3_FailedJobPropagates ==
  (Finished /\ job.state = "FAILED") => pc = "raised"

\* C4: p.run() is called at most once per invocation, and create_tfrecords
\* gets past wait_until_finish only after exactly one p.run() and one
\* wait_until_finish() that left the job in a terminal state.
C4_SubmittedOnceAndAwaited ==
  /\ calls.run <= 1
  /\ calls.wait <= calls.run
  /\ pc \in {"shutdown", "returned"} =>
       /\ calls.run = 1
       /\ calls.wait = 1
       /\ job.state \in TerminalStates

C4_Witness ==
  pc = "returned" /\ args.runner = "DataFlowRunner" /\ job.state = "DONE"

\* C5: _validate_data raises exactly when the ordered column list of the
\* table differs from [image_uri, label, split].
C5_SchemaFailsIffNotCanonical ==
  SchemaStageDone =>
     ((pc = "raised" /\ exc \in SchemaErrors)
        <=> df.columns # IMAGE_CSV_COLUMNS)

C5_Witness ==
  /\ pc = "raised"
  /\ exc = E_COLUMN_ORDER
  /\ Range(df.columns) = Range(IMAGE_CSV_COLUMNS)
  /\ Len(df.columns) = 3

\* C6: for a schema-valid table, DataFlowRunner and non-empty project and
\* region, _validate_runner fails exactly when some image_uri value does not
\* start with gs://.
C6_FailsIffSomeUriNotGs ==
  (/\ RunnerStageDone
   /\ args.runner = "DataFlowRunner"
   /\ ~Missing(args.project)
   /\ ~Missing(args.region)) =>
     ((pc = "raised" /\ exc \in RunnerErrors)
        <=> \E i \in 1..Len(df.uri) : ~IsGs(df.uri[i]))

\* C7: for a schema-valid table whose image_uri values all start with gs://,
\* under DataFlowRunner _validate_runner fails exactly when project or region
\* is None or empty; under DirectRunner it does not fail at all.
C7_ProjectRegionRequiredForDataFlow ==
  (RunnerStageDone /\ \A i \in 1..Len(df.uri) : IsGs(df.uri[i])) =>
     /\ args.runner = "DataFlowRunner" =>
          ((pc = "raised" /\ exc = E_PROJECT_REGION)
             <=> (Missing(args.project) \/ Missing(args.region)))
     /\ args.runner = "DataFlowRunner" => exc \notin RunnerErrors \ {E_PROJECT_REGION}
     /\ args.runner = "DirectRunner" => exc \notin RunnerErrors

C7_Witness ==
  /\ pc = "raised"
  /\ exc = E_PROJECT_REGION
  /\ args.project = "p"
  /\ args.region = ""
  /\ Len(df.uri) > 0

C9_NoStateLeaksBetweenInvocations ==
  (pc = "returned" /\ job.state = "DONE") => logst = InitLog

\* C10: the exception raised is that of the first failing stage in the order
\* to_dataframe, _validate_data, _validate_runner, and inside
\* _validate_runner an unrecognized runner name comes first.
C10_FirstFailingStageReported ==
  LET n == to_dataframe(args.input_data, args.header, args.names)
  IN pc = "raised" =>
       /\ n.err # OK => exc = n.err
       /\ (n.err = OK /\ validate_data(n.df) # OK) =>
            exc = validate_data(n.df)
       /\ exc \in SchemaErrors \cup RunnerErrors => df = n.df
       /\ exc \in RunnerErrors => df.columns = IMAGE_CSV_COLUMNS
       /\ (exc \in RunnerErrors
           /\ args.runner \notin {"DataFlowRunner", "DirectRunner"}) =>
            exc = E_RUNNER

C10_Witness ==
  /\ pc = "raised"
  /\ exc \in SchemaErrors
  /\ args.runner = "DirectFlowRunner"
  /\ args.project = NONE

====
